---- MODULE Spec2Model ----
(***************************************************************************)
(* telegram-commander: the link-file ingestion pipeline (watcher,          *)
(* processFile, sendPhotoToTelegram) and the catalog browse bot in its     *)
(* four revisions, as state machines whose steps are the synchronous       *)
(* segments between two awaits / callbacks of the JavaScript source.       *)
(***************************************************************************)
EXTENDS Integers, Sequences, FiniteSets, TLC

(***************************************************************************)
(* Program constants of the ingestion pipeline.                            *)
(***************************************************************************)
CAPTION_MAX_LENGTH == 1024
BASE_DELAY == 500
MAX_RETRIES == 3
DEFAULT_RETRY_AFTER == 10
RATE_LIMIT_CODE == 429

(***************************************************************************)
(* Bounds of the model.                                                    *)
(***************************************************************************)
MaxLines == 5
MaxVideos == 3

(***************************************************************************)
(* Strings.  A URL or a path is the length of its directory prefix (up to  *)
(* and including the last "/") and the dot-separated tokens of its last    *)
(* path segment.  A token is a TLA+ string; its length, its upper-case     *)
(* form and its character class are tabulated.                             *)
(***************************************************************************)
Tokens ==
  { "show", "long", "S01", "s02", "E03", "e04", "07", "2021",
    "480p", "720p", "1080P", "360p",
    "mkv", "mp4", "MP4", "jpg", "PNG", "jpeg", "txt", "gif" }

TokLen(t) ==
  CASE t = "long" -> 1100
    [] t \in {"07"} -> 2
    [] t \in {"S01", "s02", "E03", "e04", "mkv", "mp4", "MP4", "jpg", "PNG",
              "txt", "gif"} -> 3
    [] t \in {"show", "2021", "480p", "720p", "360p", "jpeg"} -> 4
    [] t \in {"1080P"} -> 5

ToUpper(t) ==
  CASE t = "480p" -> "480P"
    [] t = "720p" -> "720P"
    [] t = "1080P" -> "1080P"
    [] OTHER -> t

RECURSIVE SumLen(_)
SumLen(toks) ==
  IF toks = <<>> THEN 0 ELSE TokLen(Head(toks)) + SumLen(Tail(toks))

\* The length of the last path segment: its tokens and the dots between them.
SegLen(u) ==
  IF u.toks = <<>> THEN 0 ELSE SumLen(u.toks) + (Len(u.toks) - 1)

\* The length of the whole string.
StrLen(u) == u.pre + SegLen(u)

Url(pre, toks) == [pre |-> pre, toks |-> toks]

\* const isImage = (url) => /\.(png|jpg|jpeg)$/i.test(url)
isImage(url) ==
  /\ Len(url.toks) >= 2
  /\ url.toks[Len(url.toks)] \in {"png", "jpg", "jpeg", "PNG", "JPG", "JPEG"}

\* const isVideo = (url) => /\.(mkv|mp4)$/i.test(url)
isVideo(url) ==
  /\ Len(url.toks) >= 2
  /\ url.toks[Len(url.toks)] \in {"mkv", "mp4", "MKV", "MP4"}

\* extractFileName: the last path segment without its last dot-separated
\* part, the others joined with "," and dashes replaced by spaces; only its
\* length matters to the caption.
extractFileNameLen(path) ==
  IF Len(path.toks) <= 1 THEN 0
  ELSE SumLen(SubSeq(path.toks, 1, Len(path.toks) - 1)) + (Len(path.toks) - 2)

\* A token between two dots: every token but the first and the last.
Inner(url) == 2 .. (Len(url.toks) - 1)

IsResolutionTok(t) == t \in {"480p", "720p", "1080p", "480P", "720P", "1080P"}

\* url.match(/\.(480p|720p|1080p)\./i): the leftmost match, upper-cased.
extractResolution(url) ==
  LET hits == { i \in Inner(url) : IsResolutionTok(url.toks[i]) }
  IN  IF hits = {} THEN "Unknown Resolution"
      ELSE ToUpper(url.toks[CHOOSE i \in hits : \A j \in hits : i <= j])

ResLen(r) ==
  CASE r = "Unknown Resolution" -> 18
    [] r = "1080P" -> 5
    [] OTHER -> 4

IsSeasonTok(t) == t \in {"S01", "s02"}
IsETok(t) == t \in {"E03", "e04"}
IsTwoDigits(t) == t \in {"07"}

\* String.prototype.slice(1) on a token.
Slice1(t) ==
  CASE t = "S01" -> "01"
    [] t = "s02" -> "02"
    [] t = "E03" -> "03"
    [] t = "e04" -> "04"
    [] OTHER -> t

\* extractSeasonAndEpisode: the label and its length.
\*   /\.(S\d+\.(?:E\d+|\d{2}))\./i, then /\.(\d{2})\./, then the sentinel.
extractSeasonAndEpisode(url) ==
  LET n == Len(url.toks)
      se == { i \in 2 .. (n - 2) :
                /\ IsSeasonTok(url.toks[i])
                /\ (IsETok(url.toks[i + 1]) \/ IsTwoDigits(url.toks[i + 1])) }
      eo == { i \in Inner(url) : IsTwoDigits(url.toks[i]) }
  IN  IF se # {}
      THEN LET i == CHOOSE k \in se : \A j \in se : k <= j
               season == url.toks[i]
               episode == url.toks[i + 1]
               \* episode.startsWith("E") is case-sensitive
               episodeNumber == IF episode \in {"E03"} THEN Slice1(episode)
                                ELSE episode
           IN  [kind |-> "SE", season |-> Slice1(season),
                episode |-> episodeNumber,
                len |-> 7 + (TokLen(season) - 1) + 10 + TokLen(episode)
                          - (IF episode \in {"E03"} THEN 1 ELSE 0)]
      ELSE IF eo # {}
      THEN LET i == CHOOSE k \in eo : \A j \in eo : k <= j
           IN  [kind |-> "E", season |-> "", episode |-> url.toks[i],
                len |-> 8 + TokLen(url.toks[i])]
      ELSE [kind |-> "U", season |-> "", episode |-> "", len |-> 26]

(***************************************************************************)
(* processFile, its pure parts.                                            *)
(***************************************************************************)
BlankLine == Url(0, <<>>)

\* data.split("\n").filter((link) => link.trim() !== "")
RECURSIVE NonBlank(_)
NonBlank(lines) ==
  IF lines = <<>> THEN <<>>
  ELSE IF Head(lines) = BlankLine THEN NonBlank(Tail(lines))
  ELSE <<Head(lines)>> \o NonBlank(Tail(lines))

\* Mutant of NoGroup: currentGroup starts as an (empty) group, not null.
NoGroup_Open == [open |-> TRUE, image |-> 0, videos |-> <<>>]

\* let currentGroup = null
NoGroup == [open |-> FALSE, image |-> 0, videos |-> <<>>]

\* The scan of the lines: an image closes the open group and opens one, a
\* video joins the open group.  A group keeps the positions (in urls) of
\* its image and of its videos.
RECURSIVE GroupScan(_, _, _, _)
GroupScan(urls, i, groups, currentGroup) ==
  IF i > Len(urls)
  THEN IF currentGroup.open THEN Append(groups, currentGroup) ELSE groups
  ELSE IF isImage(urls[i])
  THEN GroupScan(urls, i + 1,
                 IF currentGroup.open THEN Append(groups, currentGroup)
                 ELSE groups,
                 [open |-> TRUE, image |-> i, videos |-> <<>>])
  ELSE IF isVideo(urls[i]) /\ currentGroup.open
  THEN GroupScan(urls, i + 1, groups,
                 [currentGroup EXCEPT !.videos = Append(@, i)])
  ELSE GroupScan(urls, i + 1, groups, currentGroup)

GroupLines(urls) == GroupScan(urls, 1, <<>>, NoGroup)

\* group.videos.reduce(...): the videos by resolution, the resolutions in
\* the order of their first video (Object.entries of string keys).
RECURSIVE Bucketize(_, _, _)
Bucketize(urls, videos, acc) ==
  IF videos = <<>> THEN acc
  ELSE LET v == Head(videos)
           res == extractResolution(urls[v])
           at == { k \in 1 .. Len(acc) : acc[k].res = res }
       IN  IF at = {}
           THEN Bucketize(urls, Tail(videos),
                          Append(acc, [res |-> res, videos |-> <<v>>]))
           ELSE Bucketize(urls, Tail(videos),
                          [acc EXCEPT ![CHOOSE k \in at : TRUE].videos =
                                        Append(@, v)])

RECURSIVE Reverse(_)
Reverse(q) == IF q = <<>> THEN <<>> ELSE Append(Reverse(Tail(q)), Head(q))

\* Mutant of videosByResolution: the videos taken last first.
videosByResolution_Reversed(urls, group) ==
  Bucketize(urls, Reverse(group.videos), <<>>)

videosByResolution(urls, group) == Bucketize(urls, group.videos, <<>>)

\* A caption under construction: its item lines (positions of their
\* videos) and the length of its text.
\* header = `<b>${title}</b>\n<b>${resolution}</b>\n\n`
HeaderCaption(tlen, res) ==
  [items |-> <<>>, len |-> 3 + tlen + 8 + ResLen(res) + 6]

\* link = `${seasonEpisode}: <a href="${video}">${filename}</a>`
LinkLen(url) ==
  extractSeasonAndEpisode(url).len + 11 + StrLen(url) + 2 + SegLen(url) + 4

\* Mutant of AddLink: a link whose season and episode are not recognised
\* is left out of the caption.
AddLink_SkipsUnknown(caption, urls, v) ==
  IF extractSeasonAndEpisode(urls[v]).kind = "U" THEN caption
  ELSE [items |-> Append(caption.items, v),
        len |-> caption.len + LinkLen(urls[v]) + 1]

\* caption + link + "\n"
AddLink(caption, urls, v) ==
  [items |-> Append(caption.items, v),
   len |-> caption.len + LinkLen(urls[v]) + 1]

\* String.prototype.trim: the header ends with two line feeds, an item line
\* with one; nothing else of a caption is white space at its ends.
Trim(caption) ==
  [caption EXCEPT !.len = @ - (IF caption.items = <<>> THEN 2 ELSE 1)]

ExceedsLimit(caption) == caption.len > CAPTION_MAX_LENGTH

\* Mutant of AfterFlush: the new caption starts from the header alone.
AfterFlush_DropsLink(header, urls, v) == header

\* The caption a flush in the loop leaves: header + link + "\n".
AfterFlush(header, urls, v) == AddLink(header, urls, v)

\* Whether the last flush happens: caption.trim() !== header.trim()
HasRemaining(caption, header) == Trim(caption) # Trim(header)

Await(pcv, site, gi, bi, vi, caption) ==
  [pc |-> pcv, site |-> site, gi |-> gi, bi |-> bi, vi |-> vi,
   caption |-> caption]

\* processFile from the head of the video loop (VideoLoop) or of the
\* resolution loop (BucketLoop) to its next await: the post of a caption
\* (site "flush", line 132, or "final", line 141), the delay of line 145,
\* or the end of the function.
RECURSIVE VideoLoop(_, _, _, _, _, _, _)
VideoLoop(urls, groups, tlen, gi, bi, vi, caption) ==
  LET bucket == videosByResolution(urls, groups[gi])[bi]
      header == HeaderCaption(tlen, bucket.res)
  IN  IF vi > Len(bucket.videos)
      THEN IF HasRemaining(caption, header)
           THEN Await("post", "final", gi, bi, vi, caption)
           ELSE Await("delay", "none", gi, bi, vi, caption)
      ELSE LET newCaption == AddLink(caption, urls, bucket.videos[vi])
           IN  IF ExceedsLimit(newCaption)
               THEN Await("post", "flush", gi, bi, vi, caption)
               ELSE VideoLoop(urls, groups, tlen, gi, bi, vi + 1, newCaption)

RECURSIVE BucketLoop(_, _, _, _, _)
BucketLoop(urls, groups, tlen, gi, bi) ==
  IF gi > Len(groups)
  THEN Await("done", "none", gi, bi, 1, HeaderCaption(tlen, ""))
  ELSE LET buckets == videosByResolution(urls, groups[gi])
       IN  IF bi > Len(buckets)
           THEN BucketLoop(urls, groups, tlen, gi + 1, 1)
           ELSE VideoLoop(urls, groups, tlen, gi, bi, 1,
                          HeaderCaption(tlen, buckets[bi].res))

(***************************************************************************)
(* The ingestion service: each file event of the watcher starts a          *)
(* processFile run that is not awaited, so runs overlap.                   *)
(***************************************************************************)
Runs == {"run1", "run2"}

VARIABLES
  pc,     \* run -> "idle" | "post" | "sleep" | "delay" | "done" | "failed"
  file,   \* run -> [path, urls]: the path and the non-blank lines read
  groups, \* run -> the groups built from the lines
  cur,    \* run -> the suspended frame of processFile: site, gi, bi, vi, caption
  calls   \* run -> the calls of sendPhotoToTelegram made so far, in order

ingestVars == <<pc, file, groups, cur, calls>>

\* The browse bot (one revision of it at a time).
VARIABLES
  rev,       \* the revision that runs: "index" | "p000" | "p001" | "p002"
  update,    \* slot -> the inbound update handled (a message or a callback)
  issued,    \* slot -> the asynchronous operations started, in start order
  events,    \* slot -> starts and settlements, in the order they happened
  processed, \* the media rows whose column processed is 1
  unhandled, \* slot -> operations whose failure no handler caught
  userSessions \* the Map userSessions of part_002: chat id -> session

browseVars ==
  <<rev, update, issued, events, processed, unhandled, userSessions>>

\* One call of a pure function of the sources, on its own.
VARIABLES
  invoked,  \* the function called and its argument
  returned  \* what it returned, once it has

pureVars == <<invoked, returned>>

NoCall == [fn |-> "none", arg |-> <<>>]
NoResult == [done |-> FALSE, value |-> <<>>]

\* Transport responses to axios.post.
OkResponse == [kind |-> "ok", code |-> 200, hasRetryAfter |-> FALSE,
               retryAfter |-> 0]
RateLimited(has, n) == [kind |-> "error", code |-> RATE_LIMIT_CODE,
                        hasRetryAfter |-> has, retryAfter |-> n]
ApiError(code) == [kind |-> "error", code |-> code, hasRetryAfter |-> FALSE,
                   retryAfter |-> 0]
\* An error with no error.response (the request never got an answer).
NetworkError == [kind |-> "network", code |-> 0, hasRetryAfter |-> FALSE,
                 retryAfter |-> 0]

\* Mutants of ShouldRetry: one retry too many; a retry on any error.
ShouldRetry_OffByOne(resp, retryCount) ==
  /\ resp.kind = "error"
  /\ resp.code = RATE_LIMIT_CODE
  /\ retryCount <= MAX_RETRIES

ShouldRetry_AnyError(resp, retryCount) == retryCount < MAX_RETRIES

\* error.response?.data?.error_code === 429 && retryCount < MAX_RETRIES
ShouldRetry(resp, retryCount) ==
  /\ resp.kind = "error"
  /\ resp.code = RATE_LIMIT_CODE
  /\ retryCount < MAX_RETRIES

\* error.response.data.parameters?.retry_after || 10, in seconds
RetryAfterSeconds(resp) ==
  IF resp.hasRetryAfter /\ resp.retryAfter # 0 THEN resp.retryAfter
  ELSE DEFAULT_RETRY_AFTER

\* Mutant of RetrySleepMs: the seconds handed to setTimeout as they are.
RetrySleepMs_Seconds(resp) == RetryAfterSeconds(resp)

\* setTimeout(resolve, retryAfter * 1000), in milliseconds
RetrySleepMs(resp) == RetryAfterSeconds(resp) * 1000

\* A call of sendPhotoToTelegram(group.image, caption.trim()): what it was
\* handed, the retryCount of its current frame, the time slept in it so
\* far, the start time of each post (relative to the call), the responses
\* received, and how it ended.
NewCall(urls, grps, nxt) ==
  [gi |-> nxt.gi,
   image |-> grps[nxt.gi].image,
   res |-> videosByResolution(urls, grps[nxt.gi])[nxt.bi].res,
   caption |-> Trim(nxt.caption),
   retryCount |-> 0,
   clock |-> 0,
   starts |-> <<0>>,
   resps |-> <<>>,
   waits |-> <<>>,
   waited |-> 0,
   result |-> "pending"]

\* processFile reaches its next await nxt: a post opens a new call.
Suspend(r, urls, grps, nxt, log) ==
  /\ pc' = [pc EXCEPT ![r] = nxt.pc]
  /\ cur' = [cur EXCEPT ![r] = nxt]
  /\ calls' = [calls EXCEPT ![r] =
                 IF nxt.pc = "post"
                 THEN Append(log, [NewCall(urls, grps, nxt) EXCEPT
                                     !.waited = IF pc[r] = "delay"
                                                THEN BASE_DELAY ELSE 0])
                 ELSE log]

IdleFrame == Await("idle", "none", 1, 1, 1, [items |-> <<>>, len |-> 0])

\* watcher.on("add" | "change"): processFile(filePath) runs to its first
\* await: the file is read, its lines grouped, and the loops entered.
OnFileEvent(r, path, lines) ==
  /\ pc[r] = "idle"
  /\ LET urls == NonBlank(lines)
         grps == GroupLines(urls)
     IN  /\ file' = [file EXCEPT ![r] = [path |-> path, urls |-> urls]]
         /\ groups' = [groups EXCEPT ![r] = grps]
         /\ Suspend(r, urls, grps,
                    BucketLoop(urls, grps, extractFileNameLen(path), 1, 1),
                    calls[r])
  /\ UNCHANGED <<browseVars, pureVars>>

LastCall(r) == calls[r][Len(calls[r])]

\* What processFile does when the awaited sendPhotoToTelegram returns.
AfterSend(r, log) ==
  LET urls == file[r].urls
      grps == groups[r]
      tlen == extractFileNameLen(file[r].path)
      c == cur[r]
      bucket == videosByResolution(urls, grps[c.gi])[c.bi]
      header == HeaderCaption(tlen, bucket.res)
  IN  IF c.site = "flush"
      THEN Suspend(r, urls, grps,
                   VideoLoop(urls, grps, tlen, c.gi, c.bi, c.vi + 1,
                             AfterFlush(header, urls, bucket.videos[c.vi])),
                   log)
      ELSE Suspend(r, urls, grps,
                   Await("delay", "none", c.gi, c.bi, c.vi, c.caption), log)

\* The awaited axios.post of the current call settles with resp.
PostSettles(r, resp) ==
  /\ pc[r] = "post"
  /\ LET call == [LastCall(r) EXCEPT !.resps = Append(@, resp)]
         closed(res) == [calls[r] EXCEPT ![Len(calls[r])] =
                           [call EXCEPT !.result = res]]
     IN  IF resp.kind = "ok"
         THEN AfterSend(r, closed("ok"))
         ELSE IF ShouldRetry(resp, call.retryCount)
         THEN /\ pc' = [pc EXCEPT ![r] = "sleep"]
              /\ calls' = [calls EXCEPT ![r] = closed("pending")]
              /\ cur' = cur
         ELSE \* throw error; caught by processFile's try/catch
              /\ pc' = [pc EXCEPT ![r] = "failed"]
              /\ calls' = [calls EXCEPT ![r] = closed("thrown")]
              /\ cur' = cur
  /\ UNCHANGED <<file, groups, browseVars, pureVars>>

\* The retry timer fires: sendPhotoToTelegram(imageUrl, caption,
\* retryCount + 1) posts again.
RetryTimerFires(r) ==
  /\ pc[r] = "sleep"
  /\ LET call == LastCall(r)
         slept == RetrySleepMs(call.resps[Len(call.resps)])
     IN  calls' = [calls EXCEPT ![r][Len(calls[r])] =
                     [call EXCEPT !.retryCount = @ + 1,
                                  !.clock = @ + slept,
                                  !.waits = Append(@, slept),
                                  !.starts = Append(@, call.clock + slept)]]
  /\ pc' = [pc EXCEPT ![r] = "post"]
  /\ UNCHANGED <<file, groups, cur, browseVars, pureVars>>

\* The BASE_DELAY timer after a resolution's captions fires.
DelayTimerFires(r) ==
  /\ pc[r] = "delay"
  /\ Suspend(r, file[r].urls, groups[r],
             BucketLoop(file[r].urls, groups[r],
                        extractFileNameLen(file[r].path), cur[r].gi,
                        cur[r].bi + 1),
             calls[r])
  /\ UNCHANGED <<file, groups, browseVars, pureVars>>

IngestInit ==
  /\ pc = [r \in Runs |-> "idle"]
  /\ file = [r \in Runs |-> [path |-> Url(0, <<>>), urls |-> <<>>]]
  /\ groups = [r \in Runs |-> <<>>]
  /\ cur = [r \in Runs |-> IdleFrame]
  /\ calls = [r \in Runs |-> <<>>]

(***************************************************************************)
(* Inputs: link files and transport responses.                             *)
(***************************************************************************)
SeqsUpTo(S, n) == UNION { [1 .. k -> S] : k \in 0 .. n }

LinksPath == Url(6, <<"show", "txt">>)
OtherPath == Url(6, <<"show", "2021", "txt">>)

imgA == Url(9, <<"show", "jpg">>)
imgB == Url(9, <<"show", "S01", "PNG">>)
vidA == Url(300, <<"show", "S01", "E03", "720p", "mkv">>)
vidB == Url(600, <<"show", "s02", "e04", "720p", "mp4">>)
vidU == Url(300, <<"show", "07", "360p", "MP4">>)
vidH == Url(300, <<"show", "1080P", "mp4">>)
vidLong == Url(9, <<"long", "720p", "mp4">>)
otherLine == Url(9, <<"show", "txt">>)

\* The retry logic: one file with two captions, every kind of response.
FilesSend ==
  { [path |-> LinksPath, lines |-> <<imgA, BlankLine, vidA, vidU>>] }
RespSend ==
  { OkResponse, RateLimited(FALSE, 0), RateLimited(TRUE, 0),
    RateLimited(TRUE, 2), RateLimited(TRUE, 30), ApiError(400), NetworkError }

\* The caption batcher: one image and any videos after it.
FilesBatch ==
  { [path |-> LinksPath, lines |-> <<imgA>> \o vs] :
      vs \in SeqsUpTo({vidA, vidB, vidU, vidLong}, MaxVideos) }
RespBatch == { OkResponse, RateLimited(FALSE, 0), ApiError(400) }

\* The grouping: any lines.
FilesGroup ==
  { [path |-> LinksPath, lines |-> ls] :
      ls \in SeqsUpTo({imgA, imgB, vidA, vidU, otherLine}, MaxLines) }

\* Overlapping runs.
FilesConc ==
  { [path |-> LinksPath, lines |-> <<vidU, imgA, vidA, vidA, vidA, vidH>>],
    [path |-> OtherPath, lines |-> <<imgA, vidU, imgB, vidA>>] }

Ingest(rs, files, resps) ==
  \E r \in rs :
    \/ \E f \in files : OnFileEvent(r, f.path, f.lines)
    \/ \E resp \in resps : PostSettles(r, resp)
    \/ RetryTimerFires(r)
    \/ DelayTimerFires(r)

vars == <<ingestVars, browseVars, pureVars>>

\* The ingestion service before its first file event; the bot is not part
\* of this process.
\* The first and the second inbound update of a behaviour.
Slots == {"u1", "u2"}

NoUpdate == [type |-> "none", data |-> <<>>]

Init ==
  /\ IngestInit
  /\ rev = "index"
  /\ update = [s \in Slots |-> NoUpdate]
  /\ issued = [s \in Slots |-> <<>>]
  /\ events = [s \in Slots |-> <<>>]
  /\ processed = {}
  /\ unhandled = [s \in Slots |-> {}]
  /\ userSessions = <<>>
  /\ invoked = NoCall
  /\ returned = NoResult

NextSend == Ingest({"run1"}, FilesSend, RespSend)
SpecSend == Init /\ [][NextSend]_vars

NextBatch == Ingest({"run1"}, FilesBatch, RespBatch)
SpecBatch == Init /\ [][NextBatch]_vars

NextGroup == Ingest({"run1"}, FilesGroup, RespBatch)
SpecGroup == Init /\ [][NextGroup]_vars

NextConc == Ingest(Runs, FilesConc, RespBatch)
SpecConc == Init /\ [][NextConc]_vars

(***************************************************************************)
(* Claims about sendPhotoToTelegram.                                       *)
(***************************************************************************)
AllCalls == UNION { { calls[r][k] : k \in 1 .. Len(calls[r]) } : r \in Runs }

IsRateLimit(resp) == resp.kind = "error" /\ resp.code = 429

FirstAreRateLimits(c, n) ==
  /\ Len(c.resps) >= n
  /\ \A i \in 1 .. n : IsRateLimit(c.resps[i])

\* C1 (as stated): a call whose first MAX_RETRIES responses are rate-limit
\* responses ends in failure, and no call posts more than MAX_RETRIES + 1
\* times.
C1_FailsAfterMaxRetries ==
  \A c \in AllCalls :
    /\ Len(c.starts) <= 3 + 1
    /\ (FirstAreRateLimits(c, 3) /\ c.result # "pending")
         => c.result = "thrown"

\* C1 (amended): a call that receives MAX_RETRIES + 1 consecutive rate-limit
\* responses ends in failure; after only MAX_RETRIES of them one more post
\* is made, whose response decides; no call posts more than
\* MAX_RETRIES + 1 times, and a call that got MAX_RETRIES + 1 responses has
\* ended.
C1_RetryBound ==
  \A c \in AllCalls :
    /\ Len(c.starts) <= 3 + 1
    /\ Len(c.resps) <= Len(c.starts)
    /\ FirstAreRateLimits(c, 3 + 1) => c.result = "thrown"
    /\ Len(c.resps) = 3 + 1 => c.result # "pending"
    /\ (FirstAreRateLimits(c, 3) /\ c.result # "pending")
         => /\ Len(c.resps) = 3 + 1
            /\ (c.result = "ok") = (c.resps[3 + 1].kind = "ok")

C1_Witness ==
  \E c \in AllCalls :
    /\ FirstAreRateLimits(c, 4)
    /\ c.result = "thrown"
    /\ Len(c.starts) = 4

\* C2: a rate-limit response with retry_after = n is followed by the next
\* post no sooner than n seconds later (10 seconds when the response names
\* no interval); a call answered by a rate limit with retry_after = 2 and
\* then a success posts exactly twice, 2 seconds or more apart, and
\* succeeds.
C2_RetryAfterWait ==
  \A c \in AllCalls :
    /\ \A i \in 1 .. (Len(c.starts) - 1) :
         /\ IsRateLimit(c.resps[i])
         /\ c.resps[i].hasRetryAfter
              => c.starts[i + 1] - c.starts[i] >= c.resps[i].retryAfter * 1000
         /\ ~c.resps[i].hasRetryAfter
              => c.starts[i + 1] - c.starts[i] >= 10 * 1000
    /\ c.resps = <<RateLimited(TRUE, 2), OkResponse>>
         => /\ c.result = "ok"
            /\ Len(c.starts) = 2
            /\ c.starts[2] - c.starts[1] >= 2000

C2_Witness ==
  \E c \in AllCalls :
    /\ c.resps = <<RateLimited(TRUE, 2), OkResponse>>
    /\ c.result = "ok"

\* C3: an error that is not a rate-limit response ends the call at once:
\* it is the last response of the call, the call has failed, no post
\* follows it and no wait follows it, whatever the retry count.
C3_OtherErrorsSurface ==
  \A c \in AllCalls :
    \A i \in 1 .. Len(c.resps) :
      (c.resps[i].kind # "ok" /\ ~IsRateLimit(c.resps[i]))
        => /\ i = Len(c.resps)
           /\ c.result = "thrown"
           /\ Len(c.starts) = i
           /\ Len(c.waits) = i - 1

C3_Witness ==
  \E r \in Runs :
    /\ pc[r] = "failed"
    /\ LastCall(r).retryCount = 2
    /\ LastCall(r).resps[3] = NetworkError

(***************************************************************************)
(* Claims about the captions of processFile.                               *)
(***************************************************************************)
\* C4: every caption handed to sendPhotoToTelegram is at most
\* CAPTION_MAX_LENGTH characters long.
C4_CaptionWithinLimit ==
  \A c \in AllCalls : c.caption.len <= 1024

RECURSIVE ConcatItems(_)
ConcatItems(cs) ==
  IF cs = <<>> THEN <<>>
  ELSE Head(cs).caption.items \o ConcatItems(Tail(cs))

\* The calls of run r for the bucket res of group gi, in call order.
BucketCalls(r, gi, res) ==
  SelectSeq(calls[r], LAMBDA c : c.gi = gi /\ c.res = res)

\* The videos of group gi with resolution res, in the order of the file.
BucketInput(r, gi, res) ==
  SelectSeq(groups[r][gi].videos,
            LAMBDA v : extractResolution(file[r].urls[v]) = res)

Resolutions == {"480P", "720P", "1080P", "Unknown Resolution"}

IsPrefix(p, q) == Len(p) <= Len(q) /\ SubSeq(q, 1, Len(p)) = p

\* C5: for every bucket, the item lines of its captions, concatenated in
\* the order the captions were handed over, are a prefix of the bucket's
\* videos in input order, and are all of them when the run has ended with
\* every delivery successful.
C5_ItemsReproduceInput ==
  \A r \in Runs :
    \A gi \in 1 .. Len(groups[r]) :
      \A res \in Resolutions :
        LET out == ConcatItems(BucketCalls(r, gi, res))
            inp == BucketInput(r, gi, res)
        IN  /\ IsPrefix(out, inp)
            /\ pc[r] = "done" => out = inp

C5_Witness ==
  \E r \in Runs :
    /\ pc[r] = "done"
    /\ Len(BucketCalls(r, 1, "720P")) >= 2
    /\ Len(BucketInput(r, 1, "720P")) >= 3
    /\ \E c \in AllCalls : Len(c.resps) >= 2

(***************************************************************************)
(* Claims about the grouping of processFile.                               *)
(***************************************************************************)
ImagePositions(urls) == { i \in 1 .. Len(urls) : isImage(urls[i]) }

\* The k-th smallest element of a set of numbers.
Nth(S, k) == CHOOSE x \in S : Cardinality({ y \in S : y <= x }) = k

Started(r) == pc[r] # "idle"

\* C6: there is one group per image line, in line order; the k-th group is
\* led by the k-th image line and holds, in line order, exactly the video
\* lines between that image and the next one; a video line before the
\* first image is in no group; and the lines
\* [img1.jpg, vid1, vid2, img2.png, vid3] give (img1, [vid1, vid2]) and
\* (img2, [vid3]).
C6_Grouping ==
  \A r \in Runs :
    Started(r) =>
      LET urls == file[r].urls
          imgs == ImagePositions(urls)
          g == groups[r]
      IN  /\ Len(g) = Cardinality(imgs)
          /\ \A k \in 1 .. Len(g) :
               LET from == Nth(imgs, k)
                   to == IF k < Len(g) THEN Nth(imgs, k + 1)
                         ELSE Len(urls) + 1
                   between == { i \in (from + 1) .. (to - 1) :
                                  isVideo(urls[i]) }
               IN  /\ g[k].image = from
                   /\ Len(g[k].videos) = Cardinality(between)
                   /\ \A n \in 1 .. Len(g[k].videos) :
                        g[k].videos[n] = Nth(between, n)
          /\ \A k \in 1 .. Len(g) : \A n \in 1 .. Len(g[k].videos) :
               imgs # {} /\ g[k].videos[n] > Nth(imgs, 1)
          /\ urls = <<imgA, vidA, vidU, imgB, vidA>>
               => g = << [open |-> TRUE, image |-> 1, videos |-> <<2, 3>>],
                         [open |-> TRUE, image |-> 4, videos |-> <<5>>] >>

C6_Witness ==
  \E r \in Runs :
    /\ Started(r)
    /\ file[r].urls = <<vidU, imgA, vidA, imgB, vidU>>
    /\ Len(groups[r]) = 2

(***************************************************************************)
(* Claims about the order of the deliveries of processFile.                *)
(***************************************************************************)
SeqElems(q) == { q[i] : i \in 1 .. Len(q) }

\* C8: in every run, also while another run is in progress, a call of
\* sendPhotoToTelegram begins only when every earlier call of the run has
\* returned successfully (its retries included); the calls go through the
\* groups in file order; and within one resolution bucket of a group the
\* videos are handed over in their input order.
C8_DeliveryOrder ==
  \A r \in Runs :
    LET cs == calls[r]
    IN  /\ \A k \in 1 .. (Len(cs) - 1) : cs[k].result = "ok"
        /\ (cs # <<>> /\ cs[Len(cs)].result = "pending")
             = (pc[r] \in {"post", "sleep"})
        /\ \A k, l \in 1 .. Len(cs) :
             k < l =>
               /\ cs[k].gi <= cs[l].gi
               /\ cs[k].image <= cs[l].image
               /\ (cs[k].gi = cs[l].gi /\ cs[k].res = cs[l].res)
                    => \A a \in SeqElems(cs[k].caption.items) :
                         \A b \in SeqElems(cs[l].caption.items) : a < b
        /\ \A k \in 1 .. Len(cs) :
             \A i, j \in 1 .. Len(cs[k].caption.items) :
               i < j => cs[k].caption.items[i] < cs[k].caption.items[j]

C8_Witness ==
  /\ pc["run1"] = "sleep"
  /\ pc["run2"] = "post"
  /\ file["run1"].path # file["run2"].path
  /\ Len(calls["run1"]) >= 3
  /\ Len(calls["run2"]) >= 2
  /\ calls["run1"][1].res = calls["run1"][2].res
  /\ calls["run1"][1].gi = calls["run1"][2].gi
  /\ Len(calls["run1"][2].resps) >= 2

\* C20: within one processFile run a wait of BASE_DELAY takes place between
\* any two consecutive caption deliveries, also between two captions of the
\* same resolution bucket.
C20_DelayBetweenDeliveries ==
  \A r \in Runs :
    \A k \in 2 .. Len(calls[r]) : calls[r][k].waited >= BASE_DELAY

(***************************************************************************)
(* The browse bot.  Revisions: index.js ("index", node-telegram-bot-api),  *)
(* part_000 ("p000"), part_001 ("p001") and part_002 ("p002") (express     *)
(* webhooks).  A step is the start of a handler or the settlement of one   *)
(* asynchronous operation (a transport call, a store query, a timer),      *)
(* which runs the code waiting for it up to the next operations it starts. *)
(***************************************************************************)
Revs == {"index", "p000", "p001", "p002"}

\* The Catalog Store: the rows of table media of page "1".
MediaRows ==
  << [id |-> 1, page |-> "1", type |-> "image", season |-> "01",
      episode |-> "03", resolution |-> ""],
     [id |-> 2, page |-> "1", type |-> "video", season |-> "01",
      episode |-> "03", resolution |-> "720p"],
     [id |-> 3, page |-> "1", type |-> "video", season |-> "01",
      episode |-> "03", resolution |-> "1080p"],
     [id |-> 4, page |-> "1", type |-> "video", season |-> "01",
      episode |-> "04", resolution |-> ""],
     [id |-> 5, page |-> "1", type |-> "image", season |-> "02",
      episode |-> "01", resolution |-> ""],
     [id |-> 6, page |-> "1", type |-> "video", season |-> "1&2",
      episode |-> "01", resolution |-> "480p"],
     [id |-> 7, page |-> "1", type |-> "video", season |-> "02",
      episode |-> "02", resolution |-> "720p"],
     [id |-> 8, page |-> "1", type |-> "video", season |-> "02",
      episode |-> "02", resolution |-> "720p"],
     [id |-> 9, page |-> "1", type |-> "video", season |-> "02",
      episode |-> "02", resolution |-> ""] >>

SortedValues == <<"01", "02", "03", "04", "1&2">>

\* data[k] of callbackQuery.data.split(":")
Field(tok, k) == IF k <= Len(tok) THEN tok[k] ELSE "undefined"


\* SELECT season FROM media WHERE page_id = ? GROUP BY season ORDER BY season
QuerySeasons(page) ==
  SelectSeq(SortedValues,
            LAMBDA v : \E i \in 1 .. Len(MediaRows) :
                         MediaRows[i].page = page /\ MediaRows[i].season = v)

\* SELECT episode FROM media WHERE page_id = ? AND season = ?
\*   GROUP BY episode ORDER BY episode
QueryEpisodes(page, season) ==
  SelectSeq(SortedValues,
            LAMBDA v : \E i \in 1 .. Len(MediaRows) :
                         /\ MediaRows[i].page = page
                         /\ MediaRows[i].season = season
                         /\ MediaRows[i].episode = v)

InEpisode(row, tok) ==
  /\ row.page = Field(tok, 2)
  /\ row.season = Field(tok, 3)
  /\ row.episode = Field(tok, 4)

\* SELECT * FROM media WHERE page_id = ? AND season = ? AND episode = ?
\*   ORDER BY type DESC: the videos, then the images (row ids).
RowIds(tok, type) ==
  SelectSeq([i \in 1 .. Len(MediaRows) |-> i],
            LAMBDA i : InEpisode(MediaRows[i], tok)
                         /\ MediaRows[i].type = type)

QueryVideos(tok) == RowIds(tok, "video")
QueryImages(tok) == RowIds(tok, "image")

\* An asynchronous operation: its kind ("ack", "sendMessage",
\* "deleteMessage", "sendMediaGroup", "sendVideo", "db", "dbrun",
\* "delay"), what it carries, the code that waits for it (cont), the
\* callback data in scope (tok), the index of the video it is about (idx),
\* its inline keyboard (kb) and the operation whose settlement started it
\* (by, 0 for the handler itself).
Op(kind, what, cont, tok, idx, kb) ==
  [kind |-> kind, what |-> what, cont |-> cont, tok |-> tok, idx |-> idx,
   kb |-> kb, by |-> 0]

Send(what, cont, tok, kb) == Op("sendMessage", what, cont, tok, 0, kb)
Query(what, cont, tok) == Op("db", what, cont, tok, 0, <<>>)

\* The buttons of the season list, of the episode list and of the menu.
SeasonButtons(page) ==
  [i \in 1 .. Len(QuerySeasons(page)) |->
     <<"season", page, QuerySeasons(page)[i]>>] \o << <<"back", "search">> >>

EpisodeButtons(page, season) ==
  [i \in 1 .. Len(QueryEpisodes(page, season)) |->
     <<"episode", page, season, QueryEpisodes(page, season)[i]>>]
    \o << <<"back", "page", page>> >>

MenuButtons == << <<"search_init">>, <<"help">> >>

\* One url button per video row, labelled with its resolution ("HD" when
\* the row has none).
ResolutionButtons(tok) ==
  [i \in 1 .. Len(QueryVideos(tok)) |->
     <<"url",
       IF MediaRows[QueryVideos(tok)[i]].resolution = "" THEN "HD"
       ELSE MediaRows[QueryVideos(tok)[i]].resolution>>]

RECURSIVE keyboardRows(_)

\* Mutant of keyboardRows: every button on a row of its own.
keyboardRows_OnePerRow(buttons) ==
  [i \in 1 .. Len(buttons) |-> << buttons[i] >>]

\* while (buttons.length > 0) keyboardRows.push(buttons.splice(0, 2)):
\* splice removes and returns the first two buttons (one when only one is
\* left).
keyboardRows(buttons) ==
  IF Len(buttons) > 0
  THEN LET n == IF Len(buttons) < 2 THEN Len(buttons) ELSE 2
       IN  << SubSeq(buttons, 1, n) >>
             \o keyboardRows(SubSeq(buttons, n + 1, Len(buttons)))
  ELSE <<>>

\* Table pages (id, name); a name is its characters.
PageRows ==
  << [id |-> "1", name |-> <<"a", "3">>],
     [id |-> "2", name |-> <<"a", "0">>],
     [id |-> "3", name |-> <<"A">>],
     [id |-> "4", name |-> <<"a", "1">>],
     [id |-> "5", name |-> <<"a", "2">>],
     [id |-> "6", name |-> <<"a", "4">>],
     [id |-> "7", name |-> <<"a", "5">>],
     [id |-> "8", name |-> <<"a", "6">>],
     [id |-> "9", name |-> <<"a", "7">>],
     [id |-> "10", name |-> <<"a", "8">>],
     [id |-> "11", name |-> <<"a", "9">>],
     [id |-> "12", name |-> <<"b", "&">>],
     [id |-> "13", name |-> <<"B", "c">>],
     [id |-> "14", name |-> <<"x">>] >>

\* LIMIT 10 of the search query.
SEARCH_LIMIT == 10

\* The code unit of a character (the order of ORDER BY name, which
\* compares bytes).
CharCode(c) ==
  CASE c = "%" -> 37 [] c = "&" -> 38 [] c = ";" -> 59 [] c = "<" -> 60
    [] c = ">" -> 62 [] c = "_" -> 95
    [] c \in {"0", "1", "2", "3", "4", "5", "6", "7", "8", "9"} ->
         48 + (CHOOSE d \in 0 .. 9 :
                 c = <<"0", "1", "2", "3", "4", "5", "6", "7", "8", "9">>[d + 1])
    [] c = "A" -> 65 [] c = "B" -> 66
    [] c = "a" -> 97 [] c = "b" -> 98 [] c = "c" -> 99 [] c = "x" -> 120
    [] c = "z" -> 122
    [] OTHER -> 200

\* LIKE folds the case of ASCII letters.
FoldCase(c) ==
  CASE c = "A" -> "a" [] c = "B" -> "b" [] OTHER -> c

\* name LIKE pattern: % matches any run of characters, _ any one character.
RECURSIVE Like(_, _)
Like(pattern, name) ==
  IF pattern = <<>> THEN name = <<>>
  ELSE IF Head(pattern) = "%"
  THEN Like(Tail(pattern), name)
         \/ (name # <<>> /\ Like(pattern, Tail(name)))
  ELSE /\ name # <<>>
       /\ (Head(pattern) = "_"
             \/ FoldCase(Head(pattern)) = FoldCase(Head(name)))
       /\ Like(Tail(pattern), Tail(name))

RECURSIVE NameBefore(_, _)
NameBefore(m, n) ==
  IF m = <<>> THEN n # <<>>
  ELSE IF n = <<>> THEN FALSE
  ELSE IF Head(m) = Head(n) THEN NameBefore(Tail(m), Tail(n))
  ELSE CharCode(Head(m)) < CharCode(Head(n))

\* ORDER BY name: a row's rank among rows is the number of rows before it.
RECURSIVE OrderByName(_)
OrderByName(rows) ==
  IF rows = <<>> THEN <<>>
  ELSE LET first == CHOOSE i \in 1 .. Len(rows) :
                      \A j \in 1 .. Len(rows) :
                        j # i => NameBefore(rows[i].name, rows[j].name)
       IN  << rows[first] >>
             \o OrderByName(SelectSeq(rows, LAMBDA r : r # rows[first]))

FirstRows(rows, n) == SubSeq(rows, 1, IF Len(rows) < n THEN Len(rows) ELSE n)

\* SELECT id, name FROM pages WHERE name LIKE '%' || query || '%'
\*   ORDER BY name LIMIT 10
QueryPages(query) ==
  FirstRows(OrderByName(SelectSeq(PageRows,
                                  LAMBDA r : Like(<<"%">> \o query \o <<"%">>,
                                                  r.name))),
            SEARCH_LIMIT)

\* The characters of a query word of a message.
QueryChars(q) ==
  CASE q = "bc" -> <<"b", "c">>
    [] OTHER -> << q >>

\* text.replace(/</g, "&lt;").replace(/>/g, "&gt;").replace(/&/g, "&amp;"):
\* the three replacements run in this order, each over the whole text.
RECURSIVE ReplaceAll(_, _, _)
ReplaceAll(text, c, by) ==
  IF text = <<>> THEN <<>>
  ELSE (IF Head(text) = c THEN by ELSE << Head(text) >>)
         \o ReplaceAll(Tail(text), c, by)

escapeHtml(text) ==
  ReplaceAll(ReplaceAll(ReplaceAll(text, "<", <<"&", "l", "t", ";">>),
                        ">", <<"&", "g", "t", ";">>),
             "&", <<"&", "a", "m", "p", ";">>)

\* One button per page row: its name, and the token page:<id>.
PageButtons(rows) ==
  [i \in 1 .. Len(rows) |-> <<"page", rows[i].id>>]

Effects(ops, unh) == [ops |-> ops, unhandled |-> unh]
Nothing == Effects(<<>>, FALSE)
Uncaught == Effects(<<>>, TRUE)
Start(ops) == Effects(ops, FALSE)

Ack(cont, tok) == Op("ack", "", cont, tok, 0, <<>>)
PhotoGroup(cont, tok) == Op("sendMediaGroup", "photos", cont, tok, 0, <<>>)
Video(cont, tok, i) ==
  Op("sendVideo", IF i = 1 THEN "caption" ELSE "", cont, tok, i, <<>>)
Delay(cont, tok, i) == Op("delay", "500", cont, tok, i, <<>>)

\* videos.forEach(async (videoUrl, index) => { await sendVideo(...); ... }):
\* every callback runs to its first await, so every sendVideo is started.
AllVideosAtOnce(cont, tok) ==
  [i \in 1 .. Len(QueryVideos(tok)) |-> Video(cont, tok, i)]

\* The closure of showSeasons(chatId, pageId).
PageTok(pageId) == <<"page", pageId>>

\* A message text is its words (<<>>: a message without text).  The words
\* that begin with "/".
StartsWithSlash(word) == word \in {"/start", "/search", "/help", "/foo"}

HasWord(text, word) == \E i \in 1 .. Len(text) : text[i] = word

\* The query that follows "/search" (the words after the command).
HasQuery(text) ==
  \E i \in 1 .. Len(text) - 1 : text[i] = "/search"

SearchQuery(text) ==
  QueryChars(text[1 + CHOOSE i \in 1 .. Len(text) - 1 : text[i] = "/search"])

\* The rows and the screen of searchPages for the words of a message.
SearchResults(text, cont) ==
  IF QueryPages(SearchQuery(text)) = <<>>
  THEN << Send("noResults", cont, text, <<>>) >>
  ELSE << Send("results", cont, text,
               PageButtons(QueryPages(SearchQuery(text)))) >>

(***************************************************************************)
(* index.js                                                                *)
(***************************************************************************)
ShowSeasonsIndex(pageId) ==
  << Send("loading", "idx.loading", PageTok(pageId), <<>>) >>

MainMenuIndex(tok) == << Send("mainMenu", "none", tok, MenuButtons) >>

HandleBackIndex(tok) ==
  IF Field(tok, 2) = "search" THEN MainMenuIndex(tok)
  ELSE IF Field(tok, 2) = "page" /\ Field(tok, 3) # "undefined"
  THEN ShowSeasonsIndex(Field(tok, 3))
  ELSE MainMenuIndex(tok)

SwitchIndex(tok) ==
  CASE Field(tok, 1) = "search_init" -> << Send("prompt", "none", tok, <<>>) >>
    [] Field(tok, 1) = "help" -> << Send("help", "none", tok, <<>>) >>
    [] Field(tok, 1) = "page" -> ShowSeasonsIndex(Field(tok, 2))
    [] Field(tok, 1) = "season" -> << Query("episodes", "idx.episodes", tok) >>
    [] Field(tok, 1) = "episode" -> << Query("media", "idx.media", tok) >>
    [] Field(tok, 1) = "back" -> HandleBackIndex(tok)
    [] OTHER -> << Send("unknown", "none", tok, <<>>) >>

\* The listeners of a message: the "message" fallback, then every onText
\* whose expression matches somewhere in the text.  msg.text.startsWith of
\* a message without text throws in the listener.
OnMessageIndex(text) ==
  IF text = <<>> THEN Uncaught
  ELSE Start((IF ~StartsWithSlash(text[1])
              THEN << Send("fallback", "none", text, <<>>) >> ELSE <<>>)
             \o (IF HasWord(text, "/start")
                 THEN << Send("mainMenu", "none", text, MenuButtons) >>
                 ELSE <<>>)
             \o (IF HasQuery(text)
                 THEN << Query("pages", "idx.pages", text) >> ELSE <<>>)
             \o (IF HasWord(text, "/help")
                 THEN << Send("help", "none", text, <<>>) >> ELSE <<>>))

\* bot.on("callback_query"): answerCallbackQuery is started, not awaited,
\* and the switch runs at once.
OnCallbackIndex(tok) == Start(<< Ack("caught", tok) >> \o SwitchIndex(tok))

ContIndex(op, ok) ==
  CASE op.cont = "caught" -> Nothing
    [] op.cont = "none" -> IF ok THEN Nothing ELSE Uncaught
    [] op.cont = "idx.pages" ->
         IF ok THEN Start(SearchResults(op.tok, "none"))
         ELSE Start(<< Send("error:search", "none", op.tok, <<>>) >>)
    [] op.cont = "idx.loading" ->
         IF ok THEN Start(<< Query("seasons", "idx.seasons", op.tok) >>)
         ELSE Start(<< Send("error:display", "none", op.tok, <<>>) >>)
    [] op.cont = "idx.seasons" ->
         IF ok
         THEN Start(<< Op("deleteMessage", "loading", "none", op.tok, 0, <<>>),
                       Send("seasons", "none", op.tok,
                            SeasonButtons(Field(op.tok, 2))) >>)
         ELSE Start(<< Send("error:seasons", "none", op.tok, <<>>) >>)
    [] op.cont = "idx.episodes" ->
         IF ok
         THEN Start(<< Send("episodes", "none", op.tok,
                            EpisodeButtons(Field(op.tok, 2),
                                           Field(op.tok, 3))) >>)
         ELSE Start(<< Send("error:episodes", "none", op.tok, <<>>) >>)
    [] op.cont = "idx.media" ->
         IF ok
         THEN Start((IF QueryImages(op.tok) # <<>>
                     THEN << PhotoGroup("none", op.tok) >> ELSE <<>>)
                    \o (IF QueryVideos(op.tok) # <<>>
                        THEN << Send("resolutions", "none", op.tok,
                                     keyboardRows(
                                       ResolutionButtons(op.tok))) >>
                        ELSE <<>>))
         ELSE Start(<< Send("error:media", "none", op.tok, <<>>) >>)

(***************************************************************************)
(* part_002: no acknowledgement, nothing awaited, no default branch;       *)
(* handleBackNavigation is not defined in this revision.                   *)
(***************************************************************************)
OnCallback002(tok) ==
  CASE Field(tok, 1) = "search_init" ->
         Start(<< Send("prompt", "none", tok, <<>>) >>)
    [] Field(tok, 1) = "help" -> Start(<< Send("help", "none", tok, <<>>) >>)
    [] Field(tok, 1) = "page" ->
         Start(<< Query("seasons", "p2.seasons", PageTok(Field(tok, 2))) >>)
    [] Field(tok, 1) = "season" ->
         Start(<< Query("episodes", "p2.episodes", tok) >>)
    [] Field(tok, 1) = "episode" -> Start(<< Query("media", "p2.media", tok) >>)
    [] Field(tok, 1) = "back" -> Uncaught
    [] OTHER -> Nothing

\* handleMessage: nothing is awaited.
OnMessage002(text) ==
  IF Field(text, 1) = "/start"
  THEN Start(<< Send("mainMenu", "none", text, MenuButtons) >>)
  ELSE IF Field(text, 1) = "/search"
  THEN IF HasQuery(text) THEN Start(<< Query("pages", "p2.pages", text) >>)
       ELSE Start(<< Send("prompt", "none", text, <<>>) >>)
  ELSE Start(<< Send("fallback", "none", text, <<>>) >>)

Cont002(op, ok) ==
  CASE op.cont = "none" -> IF ok THEN Nothing ELSE Uncaught
    \* searchPages: no test for an empty result
    [] op.cont = "p2.pages" ->
         IF ok
         THEN Start(<< Send("results", "none", op.tok,
                            PageButtons(QueryPages(SearchQuery(op.tok)))) >>)
         ELSE Nothing
    [] op.cont = "p2.seasons" ->
         IF ok
         THEN Start(<< Send("seasons", "none", op.tok,
                            SeasonButtons(Field(op.tok, 2))) >>)
         ELSE Nothing
    [] op.cont = "p2.episodes" ->
         IF ok
         THEN Start(<< Send("episodes", "none", op.tok,
                            EpisodeButtons(Field(op.tok, 2),
                                           Field(op.tok, 3))) >>)
         ELSE Nothing
    [] op.cont = "p2.media" ->
         IF ~ok THEN Nothing
         ELSE IF QueryImages(op.tok) # <<>>
         THEN Start(<< PhotoGroup("p2.afterPhotos", op.tok) >>)
         ELSE Start(AllVideosAtOnce("p2.afterVideo", op.tok))
    [] op.cont = "p2.afterPhotos" ->
         IF ok THEN Start(AllVideosAtOnce("p2.afterVideo", op.tok))
         ELSE Uncaught
    [] op.cont = "p2.afterVideo" ->
         IF ok THEN Start(<< Delay("none", op.tok, op.idx) >>) ELSE Uncaught

(***************************************************************************)
(* part_001: the acknowledgement awaited in a try of its own.              *)
(***************************************************************************)
ShowSeasons001(pageId) ==
  << Send("loading", "p1.loading", PageTok(pageId), <<>>) >>

MainMenu001(tok) == << Send("mainMenu", "p1.switch", tok, MenuButtons) >>

HandleBack001(tok) ==
  IF Field(tok, 2) = "search" THEN MainMenu001(tok)
  ELSE IF Field(tok, 2) = "page" /\ Field(tok, 3) # "undefined"
  THEN ShowSeasons001(Field(tok, 3))
  ELSE MainMenu001(tok)

Switch001(tok) ==
  CASE Field(tok, 1) = "search_init" ->
         << Send("prompt", "p1.switch", tok, <<>>) >>
    [] Field(tok, 1) = "help" -> << Send("help", "p1.switch", tok, <<>>) >>
    [] Field(tok, 1) = "page" -> ShowSeasons001(Field(tok, 2))
    [] Field(tok, 1) = "season" -> << Query("episodes", "p1.episodes", tok) >>
    [] Field(tok, 1) = "episode" -> << Query("media", "p1.media", tok) >>
    [] Field(tok, 1) = "back" -> HandleBack001(tok)
    [] OTHER -> << Send("unknown", "p1.switch", tok, <<>>) >>

OnCallback001(tok) == Start(<< Ack("p1.ack", tok) >>)

\* handleMessage: nothing is awaited.
OnMessage001(text) ==
  IF Field(text, 1) = "/start"
  THEN Start(<< Send("mainMenu", "none", text, MenuButtons) >>)
  ELSE IF Field(text, 1) = "/search"
  THEN IF HasQuery(text) THEN Start(<< Query("pages", "p1.pages", text) >>)
       ELSE Start(<< Send("prompt", "none", text, <<>>) >>)
  ELSE Start(<< Send("fallback", "none", text, <<>>) >>)

Cont001(op, ok) ==
  CASE op.cont = "none" -> IF ok THEN Nothing ELSE Uncaught
    \* the catch of the acknowledgement only logs
    [] op.cont = "p1.ack" -> Start(Switch001(op.tok))
    [] op.cont = "p1.pages" ->
         IF ok THEN Start(SearchResults(op.tok, "none"))
         ELSE Start(<< Send("error:search", "none", op.tok, <<>>) >>)
    \* a send awaited in the switch: its failure reaches the catch of
    \* handleCallbackQuery
    [] op.cont = "p1.switch" ->
         IF ok THEN Nothing
         ELSE Start(<< Send("error:generic", "none", op.tok, <<>>) >>)
    [] op.cont = "p1.loading" ->
         IF ok THEN Start(<< Query("seasons", "p1.seasons", op.tok) >>)
         ELSE Start(<< Send("error:display", "p1.switch", op.tok, <<>>) >>)
    [] op.cont = "p1.seasons" ->
         IF ok
         THEN Start(<< Op("deleteMessage", "loading", "p1.deleted", op.tok,
                          0, <<>>) >>)
         ELSE Start(<< Send("error:seasons", "none", op.tok, <<>>) >>)
    [] op.cont = "p1.deleted" ->
         IF ok
         THEN Start(<< Send("seasons", "p1.list", op.tok,
                            SeasonButtons(Field(op.tok, 2))) >>)
         ELSE Start(<< Send("error:seasons", "none", op.tok, <<>>) >>)
    [] op.cont = "p1.list" ->
         IF ok THEN Nothing
         ELSE Start(<< Send("error:seasons", "none", op.tok, <<>>) >>)
    [] op.cont = "p1.episodes" ->
         IF ok
         THEN Start(<< Send("episodes", "none", op.tok,
                            EpisodeButtons(Field(op.tok, 2),
                                           Field(op.tok, 3))) >>)
         ELSE Start(<< Send("error:episodes", "none", op.tok, <<>>) >>)
    [] op.cont = "p1.media" ->
         IF ~ok THEN Start(<< Send("error:media", "none", op.tok, <<>>) >>)
         ELSE IF QueryImages(op.tok) # <<>>
         THEN Start(<< PhotoGroup("p1.afterPhotos", op.tok) >>)
         ELSE Start(AllVideosAtOnce("p1.afterVideo", op.tok))
    [] op.cont = "p1.afterPhotos" ->
         IF ok THEN Start(AllVideosAtOnce("p1.afterVideo", op.tok))
         ELSE Uncaught
    [] op.cont = "p1.afterVideo" ->
         IF ok THEN Start(<< Delay("none", op.tok, op.idx) >>) ELSE Uncaught

(***************************************************************************)
(* part_000: the acknowledgement awaited inside the try of the switch;     *)
(* sendMessage, sendPhotoGroup and sendVideo catch and log their own       *)
(* errors; handleBackNavigation is not defined in this revision (a         *)
(* ReferenceError inside the try).                                         *)
(***************************************************************************)
ErrorNotice000(tok) == << Send("error:generic", "swallowed", tok, <<>>) >>

Switch000(tok) ==
  CASE Field(tok, 1) = "page" ->
         << Query("seasons", "p0.seasons", PageTok(Field(tok, 2))) >>
    [] Field(tok, 1) = "season" -> << Query("episodes", "p0.episodes", tok) >>
    [] Field(tok, 1) = "episode" -> << Query("media", "p0.media", tok) >>
    [] Field(tok, 1) = "back" -> ErrorNotice000(tok)
    [] Field(tok, 1) = "help" -> << Send("help", "swallowed", tok, <<>>) >>
    [] OTHER -> << Send("unknown", "swallowed", tok, <<>>) >>

OnCallback000(tok) == Start(<< Ack("p0.ack", tok) >>)

\* handleMessage: every call awaited inside one try; sendSearchPrompt is
\* not defined in this revision (a ReferenceError inside the try).
OnMessage000(text) ==
  IF Field(text, 1) = "/start"
  THEN Start(<< Send("mainMenu", "swallowed", text, MenuButtons) >>)
  ELSE IF Field(text, 1) = "/search"
  THEN IF HasQuery(text) THEN Start(<< Query("pages", "p0.pages", text) >>)
       ELSE Start(ErrorNotice000(text))
  ELSE Start(<< Send("fallback", "swallowed", text, <<>>) >>)

\* searchPages binds the pattern to escapeHtml(query).
SearchResults000(text) ==
  IF QueryPages(escapeHtml(SearchQuery(text))) = <<>>
  THEN << Send("noResults", "swallowed", text, <<>>) >>
  ELSE << Send("results", "swallowed", text,
               PageButtons(QueryPages(escapeHtml(SearchQuery(text))))) >>

\* for (const [index, video] of videos.entries()): the next video, or the
\* UPDATE after the last one.
NextVideo000(tok, i) ==
  IF i <= Len(QueryVideos(tok)) THEN << Video("p0.afterVideo", tok, i) >>
  ELSE << Op("dbrun", "markProcessed", "none", tok, 0, <<>>) >>

Cont000(op, ok) ==
  CASE op.cont = "none" -> Nothing
    [] op.cont = "swallowed" -> Nothing
    [] op.cont = "p0.ack" ->
         IF ok THEN Start(Switch000(op.tok))
         ELSE Start(ErrorNotice000(op.tok))
    [] op.cont = "p0.pages" ->
         IF ok THEN Start(SearchResults000(op.tok))
         ELSE Start(<< Send("error:search", "swallowed", op.tok, <<>>) >>)
    [] op.cont = "p0.seasons" ->
         IF ok
         THEN Start(<< Send("seasons", "swallowed", op.tok,
                            SeasonButtons(Field(op.tok, 2))) >>)
         ELSE Start(<< Send("error:seasons", "swallowed", op.tok, <<>>) >>)
    [] op.cont = "p0.episodes" ->
         IF ok
         THEN Start(<< Send("episodes", "swallowed", op.tok,
                            EpisodeButtons(Field(op.tok, 2),
                                           Field(op.tok, 3))) >>)
         ELSE Start(<< Send("error:episodes", "swallowed", op.tok, <<>>) >>)
    [] op.cont = "p0.media" ->
         IF ~ok
         THEN Start(<< Send("error:media", "swallowed", op.tok, <<>>) >>)
         ELSE IF QueryImages(op.tok) # <<>>
         THEN Start(<< PhotoGroup("p0.afterPhotos", op.tok) >>)
         ELSE Start(NextVideo000(op.tok, 1))
    [] op.cont = "p0.afterPhotos" -> Start(NextVideo000(op.tok, 1))
    [] op.cont = "p0.afterVideo" ->
         Start(<< Delay("p0.afterDelay", op.tok, op.idx) >>)
    [] op.cont = "p0.afterDelay" -> Start(NextVideo000(op.tok, op.idx + 1))

(***************************************************************************)
(* The text handed to the transport with an operation: its parse mode and  *)
(* its pieces, each written by the bot or taken from data (a season or     *)
(* episode value), with the characters sent for it.                        *)
(***************************************************************************)
FieldChars(v) ==
  CASE v = "01" -> <<"0", "1">>
    [] v = "02" -> <<"0", "2">>
    [] v = "03" -> <<"0", "3">>
    [] v = "04" -> <<"0", "4">>
    [] v = "1&2" -> <<"1", "&", "2">>
    [] OTHER -> << v >>

HelpText ==
  IF rev = "p002" THEN << <<"Bot Commands:">> >>
  ELSE << <<"<", "b", ">", "Bot Commands", "<", "/", "b", ">">> >>

IsCaption(op) ==
  (op.kind = "sendVideo" /\ op.what = "caption") \/ op.what = "resolutions"

\* The pieces of the text before any escape: <<origin, characters>>.
TextParts(op) ==
  IF IsCaption(op)
  THEN << <<"bot", IF rev = "index" THEN <<"*", "Season ">>
                   ELSE <<"Season ">> >>,
          <<"data", FieldChars(Field(op.tok, 3))>>,
          <<"bot", <<" Episode ">> >>,
          <<"data", FieldChars(Field(op.tok, 4))>> >>
         \o (IF rev = "index" THEN << <<"bot", <<"*", "Select resolution:">> >> >>
             ELSE <<>>)
  ELSE IF op.kind = "sendMessage" /\ op.what = "help"
  THEN << <<"bot", HelpText[1]>> >>
  ELSE IF op.kind = "sendMessage" THEN << <<"bot", << op.what >> >> >>
  ELSE <<>>

ParseMode(op) ==
  IF rev # "index" THEN "HTML"
  ELSE IF op.what = "resolutions" THEN "Markdown"
  ELSE IF op.what \in {"mainMenu", "results", "seasons", "episodes", "help"}
  THEN "HTML"
  ELSE "none"

\* part_000 escapes the whole text in sendMessage and sendVideo; index.js
\* and part_001 escape the season and the episode of a caption; part_002
\* escapes nothing.
SentChars(op, part) ==
  IF rev = "p000" THEN escapeHtml(part[2])
  ELSE IF rev \in {"index", "p001"} /\ part[1] = "data"
  THEN escapeHtml(part[2])
  ELSE part[2]

Outbound(op) ==
  [mode |-> ParseMode(op),
   pieces |-> [i \in 1 .. Len(TextParts(op)) |->
                 [origin |-> TextParts(op)[i][1],
                  raw |-> TextParts(op)[i][2],
                  sent |-> SentChars(op, TextParts(op)[i])]]]

(***************************************************************************)
(* The browse state machine.  Each inbound update (a message or a callback *)
(* query) is handled by the revision; the handlers of two updates overlap  *)
(* at their awaits.                                                        *)
(***************************************************************************)
Callback(tok) == [type |-> "callback", data |-> tok]
Message(text) == [type |-> "message", data |-> text]

\* A handler that keeps a session: a token the server has seen is not
\* rendered again.
OnCallback_Session(tok) ==
  IF \E s \in Slots : update[s] = Callback(tok) THEN Nothing
  ELSE CASE rev = "index" -> OnCallbackIndex(tok)
         [] rev = "p000" -> OnCallback000(tok)
         [] rev = "p001" -> OnCallback001(tok)
         [] rev = "p002" -> OnCallback002(tok)

OnCallback(tok) ==
  CASE rev = "index" -> OnCallbackIndex(tok)
    [] rev = "p000" -> OnCallback000(tok)
    [] rev = "p001" -> OnCallback001(tok)
    [] rev = "p002" -> OnCallback002(tok)

OnMessage(text) ==
  CASE rev = "index" -> OnMessageIndex(text)
    [] rev = "p000" -> OnMessage000(text)
    [] rev = "p001" -> OnMessage001(text)
    [] rev = "p002" -> OnMessage002(text)

OnUpdate(u) ==
  IF u.type = "callback" THEN OnCallback(u.data) ELSE OnMessage(u.data)

Cont(op, ok) ==
  CASE rev = "index" -> ContIndex(op, ok)
    [] rev = "p000" -> Cont000(op, ok)
    [] rev = "p001" -> Cont001(op, ok)
    [] rev = "p002" -> Cont002(op, ok)

\* The operations started by one synchronous segment, tagged with the
\* operation whose settlement ran the segment.
StartedBy(ops, by) == [i \in 1 .. Len(ops) |-> [ops[i] EXCEPT !.by = by]]

StartEvents(s, ops) ==
  [i \in 1 .. Len(ops) |-> [e |-> "start", id |-> Len(issued[s]) + i]]

Settled(s, id) ==
  \E k \in 1 .. Len(events[s]) :
    events[s][k].id = id /\ events[s][k].e # "start"

Pending(s, id) == id \in 1 .. Len(issued[s]) /\ ~Settled(s, id)

\* A timer always fires; every other operation may be rejected.
CanFail(op) == op.kind # "delay"

CallbackTokens ==
  { <<"search_init">>, <<"help">>, <<"page", "1">>, <<"season", "1", "01">>,
    <<"episode", "1", "01", "03">>, <<"episode", "1", "01", "04">>,
    <<"episode", "1", "02", "01">>, <<"episode", "1", "02", "02">>,
    <<"episode", "1", "1&2", "01">>,
    <<"back", "search">>,
    <<"back", "page", "1">>, <<"back">>, <<"bogus">> }

SearchWords == {"a", "b", "bc", "&", "_", "z"}

MessageTexts ==
  { <<>>, <<"/start">>, <<"/help">>, <<"/search">>, <<"/foo">>, <<"hi">>,
    <<"hi", "/start">> } \cup { <<"/search", q>> : q \in SearchWords }

\* The handler of update u runs to its first await.
UpdateReceived(s, u) ==
  /\ update[s] = NoUpdate
  /\ s = "u2" => update["u1"] # NoUpdate
  /\ update' = [update EXCEPT ![s] = u]
  /\ issued' = [issued EXCEPT ![s] = @ \o StartedBy(OnUpdate(u).ops, 0)]
  /\ events' = [events EXCEPT ![s] = @ \o StartEvents(s, OnUpdate(u).ops)]
  /\ unhandled' = [unhandled EXCEPT ![s] =
                     IF OnUpdate(u).unhandled THEN @ \cup {0} ELSE @]
  /\ UNCHANGED <<rev, processed, userSessions>>
  /\ UNCHANGED <<ingestVars, pureVars>>

CallbackReceived(s, tok) == UpdateReceived(s, Callback(tok))

MessageReceived(s, text) == UpdateReceived(s, Message(text))

OperationSettles(s, id, ok) ==
  /\ Pending(s, id)
  /\ LET op == issued[s][id]
     IN  /\ issued' = [issued EXCEPT ![s] =
                         @ \o StartedBy(Cont(op, ok).ops, id)]
         /\ events' = [events EXCEPT ![s] =
                         @ \o << [e |-> IF ok THEN "ok" ELSE "fail",
                                  id |-> id] >>
                           \o StartEvents(s, Cont(op, ok).ops)]
         /\ unhandled' = [unhandled EXCEPT ![s] =
                            IF Cont(op, ok).unhandled THEN @ \cup {id} ELSE @]
         /\ processed' = IF op.kind = "dbrun" /\ ok
                         THEN processed \cup SeqElems(QueryVideos(op.tok))
                         ELSE processed
  /\ UNCHANGED <<rev, update, userSessions>>
  /\ UNCHANGED <<ingestVars, pureVars>>

OperationSucceeds(s, id) == OperationSettles(s, id, TRUE)

OperationFails(s, id) ==
  /\ id \in 1 .. Len(issued[s])
  /\ CanFail(issued[s][id])
  /\ OperationSettles(s, id, FALSE)

BrowseInit ==
  /\ IngestInit
  /\ rev \in Revs
  /\ update = [s \in Slots |-> NoUpdate]
  /\ issued = [s \in Slots |-> <<>>]
  /\ events = [s \in Slots |-> <<>>]
  /\ processed = {}
  /\ unhandled = [s \in Slots |-> {}]
  /\ userSessions = <<>>
  /\ invoked = NoCall
  /\ returned = NoResult

\* One update, any message or callback.
NextBrowse ==
  \/ \E tok \in CallbackTokens : CallbackReceived("u1", tok)
  \/ \E text \in MessageTexts : MessageReceived("u1", text)
  \/ \E id \in 1 .. Len(issued["u1"]) : OperationSucceeds("u1", id)
  \/ \E id \in 1 .. Len(issued["u1"]) : OperationFails("u1", id)

SpecBrowse == BrowseInit /\ [][NextBrowse]_vars

\* Two updates, whose handlers overlap.
ReplayTokens ==
  { <<"page", "1">>, <<"episode", "1", "01", "04">>, <<"back", "page", "1">>,
    <<"back", "search">>, <<"bogus">> }

ReplayTexts == { <<"/start">>, <<"/search", "b">> }

NextReplay ==
  \/ \E s \in Slots, tok \in ReplayTokens : CallbackReceived(s, tok)
  \/ \E s \in Slots, text \in ReplayTexts : MessageReceived(s, text)
  \/ \E s \in Slots : \E id \in 1 .. Len(issued[s]) : OperationSucceeds(s, id)
  \/ \E s \in Slots : \E id \in 1 .. Len(issued[s]) : OperationFails(s, id)

SpecReplay == BrowseInit /\ [][NextReplay]_vars

(***************************************************************************)
(* Browse claims                                                           *)
(***************************************************************************)
EventAt(s, e, id) ==
  CHOOSE k \in 1 .. Len(events[s]) :
    events[s][k].e = e /\ events[s][k].id = id

SettledBeforeStart(s, a, b) ==
  /\ Settled(s, a)
  /\ \E k \in 1 .. Len(events[s]) :
       /\ events[s][k].id = a
       /\ events[s][k].e # "start"
       /\ k < EventAt(s, "start", b)

OpIds(s) == 1 .. Len(issued[s])

VideoSends(s) == {i \in OpIds(s) : issued[s][i].kind = "sendVideo"}

\* C7: within one episode callback at most one video send is in flight, and
\* the send of video i+1 starts only after the send of video i has completed
\* and the 500 ms delay that follows it has elapsed.
C7_VideosOneAtATime ==
  \A s \in Slots :
    /\ Cardinality({v \in VideoSends(s) : Pending(s, v)}) <= 1
    /\ \A v \in VideoSends(s) :
         issued[s][v].idx > 1 =>
           \E u \in VideoSends(s), d \in OpIds(s) :
             /\ issued[s][u].idx = issued[s][v].idx - 1
             /\ SettledBeforeStart(s, u, v)
             /\ issued[s][d].kind = "delay"
             /\ issued[s][d].idx = issued[s][u].idx
             /\ SettledBeforeStart(s, d, v)

\* C9: every screen rendered and every dispatch started for a callback is
\* preceded by an acknowledgement of that callback that has completed; no
\* callback is handled without being acknowledged.
C9_AckBeforeRender ==
  \A s \in Slots :
    update[s].type = "callback" =>
      \A i \in OpIds(s) :
        issued[s][i].kind # "ack" =>
          \E a \in OpIds(s) :
            issued[s][a].kind = "ack" /\ SettledBeforeStart(s, a, i)

\* C10: when the acknowledgement fails the handler goes on exactly as it
\* does when the acknowledgement succeeds: the operations its failure
\* starts are those its success starts.
C10_AckFailureOnlyLogged ==
  \A s \in Slots :
    \A a \in OpIds(s) :
      (issued[s][a].kind = "ack"
         /\ \E k \in 1 .. Len(events[s]) :
              events[s][k] = [e |-> "fail", id |-> a])
      => SelectSeq(issued[s], LAMBDA op : op.by = a)
           = StartedBy(Cont(issued[s][a], TRUE).ops, a)

\* What one operation asks of the transport or of the store, whoever
\* started it.
Request(op) == [op EXCEPT !.by = 0]

Requests(ops) == [i \in 1 .. Len(ops) |-> Request(ops[i])]

StartedIn(s, by) == Requests(SelectSeq(issued[s], LAMBDA op : op.by = by))

Outcome(s, id) ==
  IF \E k \in 1 .. Len(events[s]) : events[s][k] = [e |-> "ok", id |-> id]
  THEN "ok"
  ELSE IF \E k \in 1 .. Len(events[s]) :
            events[s][k] = [e |-> "fail", id |-> id]
  THEN "fail"
  ELSE "pending"

Quiescent(s) ==
  update[s] # NoUpdate /\ \A i \in OpIds(s) : Outcome(s, i) # "pending"

\* Every request of slot s was answered well.
AllWell(s) == \A i \in OpIds(s) : Outcome(s, i) # "fail"

IsMedia(op) == op.kind \in {"sendMediaGroup", "sendVideo"}

KnownTransitions ==
  {"page", "season", "episode", "back", "help", "search_init"}

\* C12: a callback token whose first field is no known transition gets the
\* "unknown command" reply, with no store query and no media dispatch; it
\* is never silently ignored.
C12_UnknownTokenReply ==
  \A s \in Slots :
    (/\ update[s].type = "callback"
     /\ Field(update[s].data, 1) \notin KnownTransitions
     /\ Quiescent(s))
    => /\ \E i \in OpIds(s) :
            issued[s][i].kind = "sendMessage" /\ issued[s][i].what = "unknown"
       /\ \A i \in OpIds(s) :
            ~IsMedia(issued[s][i]) /\ issued[s][i].kind \notin {"db", "dbrun"}

FailureNotices ==
  {"error:search", "error:seasons", "error:episodes", "error:media"}

\* C13: a failed store query is answered by exactly one generic failure
\* message; the transition is aborted (no keyboard, no media for the
\* update) and the failure does not leave the handler.
C13_StoreFailureNotice ==
  \A s \in Slots :
    \A d \in OpIds(s) :
      (issued[s][d].kind = "db" /\ Outcome(s, d) = "fail") =>
        /\ Len(StartedIn(s, d)) = 1
        /\ StartedIn(s, d)[1].kind = "sendMessage"
        /\ StartedIn(s, d)[1].what \in FailureNotices
        /\ d \notin unhandled[s]
        /\ \A i \in OpIds(s) :
             ~IsMedia(issued[s][i]) /\ issued[s][i].kb = <<>>

\* The screens of slot s: the messages sent, the transient "loading"
\* notice aside, and the media dispatch (photo group, videos, resolution
\* buttons) counted once.
Screens(s) ==
  {i \in OpIds(s) : /\ issued[s][i].kind = "sendMessage"
                    /\ issued[s][i].what \notin {"loading", "resolutions"}}

Dispatches(s) ==
  IF \E i \in OpIds(s) :
       IsMedia(issued[s][i]) \/ issued[s][i].what = "resolutions"
  THEN 1 ELSE 0

\* C14: every inbound message or callback token results in exactly one
\* outbound menu render or media dispatch (here: when every request is
\* answered well).
C14_ExactlyOneResponse ==
  \A s \in Slots :
    (Quiescent(s) /\ AllWell(s)) =>
      Cardinality(Screens(s)) + Dispatches(s) = 1

\* C15: processed = 1 for a row implies an earlier successful send of
\* that row.
C15_ProcessedAfterDelivery ==
  \A row \in processed :
    \E s \in Slots :
      \E i \in OpIds(s) :
        /\ issued[s][i].kind = "sendVideo"
        /\ QueryVideos(issued[s][i].tok)[issued[s][i].idx] = row
        /\ Outcome(s, i) = "ok"

\* What the chat is shown: the messages sent, with their keyboards.
Shown(s) ==
  [i \in 1 .. Len(SelectSeq(issued[s], LAMBDA op : op.kind = "sendMessage"))
     |-> [what |-> SelectSeq(issued[s],
                             LAMBDA op : op.kind = "sendMessage")[i].what,
          kb |-> SelectSeq(issued[s],
                           LAMBDA op : op.kind = "sendMessage")[i].kb]]

\* C17: back:page:<id> renders the season list that page:<id> renders (the
\* same season buttons and back:search button), and back:search renders the
\* main menu.
C17_BackNavigation ==
  /\ \A s \in Slots, t \in Slots :
       (/\ update[s] = Callback(<<"page", "1">>)
        /\ update[t] = Callback(<<"back", "page", "1">>)
        /\ Quiescent(s) /\ AllWell(s)
        /\ Quiescent(t) /\ AllWell(t))
       => Shown(s) = Shown(t)
  /\ \A s \in Slots :
       (/\ update[s] = Callback(<<"back", "search">>)
        /\ Quiescent(s) /\ AllWell(s))
       => \E i \in OpIds(s) :
            /\ issued[s][i].kind = "sendMessage"
            /\ issued[s][i].what = "mainMenu"
            /\ issued[s][i].kb = MenuButtons

\* C19: no failure of a request, of the store or of an input leaves an
\* uncaught exception or an unhandled promise rejection.
C19_NothingUncaught ==
  \A s \in Slots : unhandled[s] = {}

\* name contains q, letters compared without case.
ContainsFolded(name, q) ==
  \E o \in 0 .. Len(name) - Len(q) :
    \A k \in 1 .. Len(q) : FoldCase(name[o + k]) = FoldCase(q[k])

\* The entries the claim lists for q: those whose name contains q, in
\* ascending name order, the first SEARCH_LIMIT of them.
Matches(q) ==
  FirstRows(OrderByName(SelectSeq(PageRows,
                                  LAMBDA r : ContainsFolded(r.name, q))),
            SEARCH_LIMIT)

\* C16: for every query q, searchPages renders one button page:<id> per
\* entry whose name contains q case-insensitively, in ascending name order,
\* at most 10 of them (the first 10 in name order); when none matches it
\* sends a "no results" message with no keyboard.
C16_SearchResults ==
  \A s \in Slots :
    \A d \in OpIds(s) :
      (/\ issued[s][d].kind = "db"
       /\ issued[s][d].what = "pages"
       /\ Outcome(s, d) = "ok")
      => /\ Len(StartedIn(s, d)) = 1
         /\ StartedIn(s, d)[1].kind = "sendMessage"
         /\ StartedIn(s, d)[1].kb =
              PageButtons(Matches(SearchQuery(issued[s][d].tok)))
         /\ Len(StartedIn(s, d)[1].kb) <= SEARCH_LIMIT
         /\ StartedIn(s, d)[1].what =
              IF Matches(SearchQuery(issued[s][d].tok)) = <<>>
              THEN "noResults" ELSE "results"

\* The escape of a parse mode: for HTML, & < > become entities; for
\* Markdown, the characters that open an entity get a backslash.
EscapeFor(mode, raw) ==
  CASE mode = "HTML" ->
         ReplaceAll(ReplaceAll(ReplaceAll(raw, "&",
                                          <<"&", "a", "m", "p", ";">>),
                               "<", <<"&", "l", "t", ";">>),
                    ">", <<"&", "g", "t", ";">>)
    [] mode = "Markdown" ->
         ReplaceAll(ReplaceAll(raw, "*", <<"\\", "*">>), "_", <<"\\", "_">>)
    [] OTHER -> raw

\* C18: every text or caption handed to the transport carries its data
\* (season and episode values) escaped for the parse mode it is sent with,
\* and the markup the bot writes itself unescaped.
C18_OutboundEscaped ==
  \A s \in Slots :
    \A i \in OpIds(s) :
      \A k \in 1 .. Len(Outbound(issued[s][i]).pieces) :
        Outbound(issued[s][i]).pieces[k].sent =
          IF Outbound(issued[s][i]).pieces[k].origin = "data"
          THEN EscapeFor(Outbound(issued[s][i]).mode,
                         Outbound(issued[s][i]).pieces[k].raw)
          ELSE Outbound(issued[s][i]).pieces[k].raw

(***************************************************************************)
(* Claims about what processFile delivers.                                 *)
(***************************************************************************)
\* The places (call, item line) of run r where video v of group gi is
\* listed in a caption handed to sendPhotoToTelegram.
ItemPlaces(r, gi, v) ==
  { <<n, j>> \in (1 .. Len(calls[r])) \X (1 .. MaxVideos) :
      /\ calls[r][n].gi = gi
      /\ j <= Len(calls[r][n].caption.items)
      /\ calls[r][n].caption.items[j] = v }

\* The places (bucket, position) of video v in a list of buckets.
BucketPlaces(buckets, v) ==
  { <<b, j>> \in (1 .. Len(buckets)) \X (1 .. MaxVideos) :
      /\ j <= Len(buckets[b].videos)
      /\ buckets[b].videos[j] = v }

HasResolutionToken(url) ==
  \E i \in 2 .. (Len(url.toks) - 1) :
    url.toks[i] \in {"480p", "720p", "1080p", "480P", "720P", "1080P"}

HasSeasonEpisodeTokens(url) ==
  \/ \E i \in 2 .. (Len(url.toks) - 1) : url.toks[i] \in {"07"}
  \/ \E i \in 2 .. (Len(url.toks) - 2) :
       /\ url.toks[i] \in {"S01", "s02"}
       /\ url.toks[i + 1] \in {"E03", "e04"}

\* C21: when a run has ended with every delivery successful, every video
\* of every group is listed in exactly one delivered caption, once,
\* whatever its name; a video without a resolution in its name is delivered
\* under "Unknown Resolution", and one without season and episode is
\* labelled with the sentinel; the resolution buckets of a group hold each
\* video of the group exactly once and nothing else.
C21_NothingDropped ==
  \A r \in Runs :
    \A gi \in 1 .. Len(groups[r]) :
      LET urls == file[r].urls
          vids == groups[r][gi].videos
          buckets == videosByResolution(urls, groups[r][gi])
      IN  /\ \A b \in 1 .. Len(buckets) :
               /\ SeqElems(buckets[b].videos) \subseteq SeqElems(vids)
               /\ \A c \in 1 .. Len(buckets) :
                    buckets[b].res = buckets[c].res => b = c
          /\ \A v \in SeqElems(vids) :
               /\ Cardinality(BucketPlaces(buckets, v)) = 1
               /\ ~HasResolutionToken(urls[v]) =>
                    \A p \in BucketPlaces(buckets, v) :
                      buckets[p[1]].res = "Unknown Resolution"
               /\ ~HasSeasonEpisodeTokens(urls[v]) =>
                    extractSeasonAndEpisode(urls[v]).kind = "U"
               /\ pc[r] = "done" =>
                    /\ Cardinality(ItemPlaces(r, gi, v)) = 1
                    /\ \A p \in ItemPlaces(r, gi, v) :
                         /\ calls[r][p[1]].result = "ok"
                         /\ ~HasResolutionToken(urls[v]) =>
                              calls[r][p[1]].res = "Unknown Resolution"

C21_Witness ==
  \E r \in Runs :
    /\ pc[r] = "done"
    /\ file[r].urls = <<imgA, vidU, vidLong, vidA>>
    /\ \E n \in 1 .. Len(calls[r]) :
         /\ calls[r][n].res = "Unknown Resolution"
         /\ calls[r][n].caption.items = <<2>>
    /\ \E n \in 1 .. Len(calls[r]) : 3 \in SeqElems(calls[r][n].caption.items)

\* The switch of the callback handler on the first field of tok, in the
\* revision that runs.
SwitchOf(tok) ==
  CASE rev = "index" -> Start(SwitchIndex(tok))
    [] rev = "p000" -> Start(Switch000(tok))
    [] rev = "p001" -> Start(Switch001(tok))
    [] rev = "p002" -> OnCallback002(tok)

(***************************************************************************)
(* Claims about the resolution keyboard of sendMedia (index.js).           *)
(***************************************************************************)
RECURSIVE Flatten(_)
Flatten(rows) ==
  IF rows = <<>> THEN <<>> ELSE Head(rows) \o Flatten(Tail(rows))

\* The resolution-selection messages started for the update of slot s.
ResolutionMessages(s) ==
  { i \in 1 .. Len(issued[s]) : issued[s][i].what = "resolutions" }

\* C22: in index.js, once the media rows of an episode with videos have
\* been read, exactly one resolution-selection message is started, no two
\* of its buttons carry the same label, and no video is transmitted.
C22_OneButtonPerResolution ==
  \A s \in Slots :
    (/\ rev = "index"
     /\ update[s].type = "callback"
     /\ Field(update[s].data, 1) = "episode"
     /\ QueryVideos(update[s].data) # <<>>
     /\ \E i \in 1 .. Len(issued[s]) :
          issued[s][i].kind = "db" /\ Outcome(s, i) = "ok")
      => /\ Cardinality(ResolutionMessages(s)) = 1
         /\ \A i \in 1 .. Len(issued[s]) : issued[s][i].kind # "sendVideo"
         /\ \A i \in ResolutionMessages(s) :
              LET buttons == Flatten(issued[s][i].kb)
              IN  \A a, b \in 1 .. Len(buttons) :
                    buttons[a][2] = buttons[b][2] => a = b

(***************************************************************************)
(* The pure functions of the sources, each called once on an argument      *)
(* drawn from a bounded set.                                               *)
(***************************************************************************)
MaxText == 3
MaxButtons == 5
MaxMiddle == 2

\* Texts handed to escapeHtml: catalog data and message texts.
EscapeAlphabet == {"<", ">", "&", "a"}

\* File names handed to extractSeasonAndEpisode: show.<tokens>.mkv
MiddleTokens == {"S01", "s02", "E03", "e04", "07", "2021", "720p"}

\* The buttons of n video rows, in row order.
VideoButtons(n) ==
  [i \in 1 .. n |-> <<"url", <<"480p", "720p", "1080p", "HD">>[(i % 4) + 1]>>]

PureCalls ==
  { [fn |-> "escapeHtml", arg |-> t] : t \in SeqsUpTo(EscapeAlphabet, MaxText) }
    \cup { [fn |-> "extractSeasonAndEpisode",
            arg |-> Url(9, <<"show">> \o mid \o <<"mkv">>)] :
             mid \in SeqsUpTo(MiddleTokens, MaxMiddle) }
    \cup { [fn |-> "keyboardRows", arg |-> VideoButtons(n)] :
             n \in 1 .. MaxButtons }

Returns(fn, value) ==
  /\ invoked.fn = fn
  /\ ~returned.done
  /\ returned' = [done |-> TRUE, value |-> value]
  /\ UNCHANGED <<invoked, ingestVars, browseVars>>

EscapeHtmlReturns == Returns("escapeHtml", escapeHtml(invoked.arg))

ExtractSeasonAndEpisodeReturns ==
  Returns("extractSeasonAndEpisode",
          [kind |-> extractSeasonAndEpisode(invoked.arg).kind,
           season |-> extractSeasonAndEpisode(invoked.arg).season,
           episode |-> extractSeasonAndEpisode(invoked.arg).episode])

KeyboardRowsReturns == Returns("keyboardRows", keyboardRows(invoked.arg))

PureInit ==
  /\ IngestInit
  /\ rev = "index"
  /\ update = [s \in Slots |-> NoUpdate]
  /\ issued = [s \in Slots |-> <<>>]
  /\ events = [s \in Slots |-> <<>>]
  /\ processed = {}
  /\ unhandled = [s \in Slots |-> {}]
  /\ userSessions = <<>>
  /\ invoked \in PureCalls
  /\ returned = NoResult

NextPure ==
  \/ EscapeHtmlReturns
  \/ ExtractSeasonAndEpisodeReturns
  \/ KeyboardRowsReturns

SpecPure == PureInit /\ [][NextPure]_vars

(***************************************************************************)
(* Claims about the pure functions.                                        *)
(***************************************************************************)
\* The number a season or episode token names: the token without its
\* letter, whatever the letter's case.
DigitsOf(t) ==
  CASE t \in {"S01"} -> "01"
    [] t \in {"s02"} -> "02"
    [] t \in {"E03"} -> "03"
    [] t \in {"e04"} -> "04"
    [] OTHER -> t

\* The positions where a token S<digits> is followed by E<digits> or by two
\* digits and then a dot, and those of a bare two-digit token between
\* dots.
SeasonEpisodeAt(url) ==
  { i \in 2 .. (Len(url.toks) - 2) :
      /\ url.toks[i] \in {"S01", "s02"}
      /\ url.toks[i + 1] \in {"E03", "e04", "07"} }

EpisodeOnlyAt(url) ==
  { i \in 2 .. (Len(url.toks) - 1) : url.toks[i] \in {"07"} }

ExpectedLabel(url) ==
  IF SeasonEpisodeAt(url) # {}
  THEN LET i == CHOOSE k \in SeasonEpisodeAt(url) :
                  \A j \in SeasonEpisodeAt(url) : k <= j
       IN  [kind |-> "SE", season |-> DigitsOf(url.toks[i]),
            episode |-> DigitsOf(url.toks[i + 1])]
  ELSE IF EpisodeOnlyAt(url) # {}
  THEN LET i == CHOOSE k \in EpisodeOnlyAt(url) :
                  \A j \in EpisodeOnlyAt(url) : k <= j
       IN  [kind |-> "E", season |-> "", episode |-> url.toks[i]]
  ELSE [kind |-> "U", season |-> "", episode |-> ""]

\* C23: for every URL, extractSeasonAndEpisode returns Season N and
\* Episode M, zeros kept and the E or e before the episode number removed,
\* when the name holds .S<digits>.E<digits>. or .S<digits>.<2 digits>. in
\* either case; else Episode NN for a bare two-digit token between dots;
\* else the sentinel.
C23_SeasonEpisodeLabel ==
  (invoked.fn = "extractSeasonAndEpisode" /\ returned.done)
    => returned.value = ExpectedLabel(invoked.arg)

(***************************************************************************)
(* Claims about mediaView.                                                 *)
(***************************************************************************)
PhotoGroups(s) == { i \in OpIds(s) : issued[s][i].kind = "sendMediaGroup" }

\* C24: at mediaView an episode with images gets exactly one photo-group
\* call once its rows have been read, and that call has completed before
\* any video send or the resolution-selection message starts; an episode
\* without images gets no photo-group call.
C24_PhotoGroupFirst ==
  \A s \in Slots :
    (update[s].type = "callback" /\ Field(update[s].data, 1) = "episode")
      => /\ QueryImages(update[s].data) = <<>> => PhotoGroups(s) = {}
         /\ Cardinality(PhotoGroups(s)) <= 1
         /\ (/\ QueryImages(update[s].data) # <<>>
             /\ \E q \in OpIds(s) :
                  /\ issued[s][q].kind = "db"
                  /\ issued[s][q].what = "media"
                  /\ Outcome(s, q) = "ok")
              => Cardinality(PhotoGroups(s)) = 1
         /\ \A j \in OpIds(s) :
              (/\ QueryImages(update[s].data) # <<>>
               /\ \/ issued[s][j].kind = "sendVideo"
                  \/ issued[s][j].what = "resolutions")
                => \E p \in PhotoGroups(s) : SettledBeforeStart(s, p, j)

\* The reference HTML escape: every character on its own.
RECURSIVE ReferenceEscape(_)
ReferenceEscape(text) ==
  IF text = <<>> THEN <<>>
  ELSE (CASE Head(text) = "<" -> <<"&", "l", "t", ";">>
          [] Head(text) = ">" -> <<"&", "g", "t", ";">>
          [] Head(text) = "&" -> <<"&", "a", "m", "p", ";">>
          [] OTHER -> << Head(text) >>)
         \o ReferenceEscape(Tail(text))

\* C25: for every text over <, >, & and a letter, escapeHtml returns the
\* reference HTML escape of the text: < as &lt;, > as &gt;, & as &amp;,
\* the rest unchanged, nothing escaped twice.
C25_EscapeHtmlIsReference ==
  (invoked.fn = "escapeHtml" /\ returned.done)
    => returned.value = ReferenceEscape(invoked.arg)

\* C26: every caption handed to sendPhotoToTelegram lists at least one
\* item: a caption that is the header alone is never sent, by the last
\* flush or by a flush in the loop.
C26_NoHeaderOnlyCaption ==
  \A c \in AllCalls : c.caption.items # <<>>

\* C27: the resolution keyboard is the buttons in rows of two: every row
\* has one or two buttons, every row but the last exactly two, there are
\* ceil(n/2) rows for n buttons, and the rows read left to right, top to
\* bottom are the buttons in the order of the video rows, none lost or
\* repeated.
C27_RowsOfTwo ==
  (invoked.fn = "keyboardRows" /\ returned.done)
    => LET buttons == invoked.arg
           rows == returned.value
       IN  /\ \A k \in 1 .. Len(rows) : Len(rows[k]) \in {1, 2}
           /\ \A k \in 1 .. (Len(rows) - 1) : Len(rows[k]) = 2
           /\ Len(rows) = (Len(buttons) + 1) \div 2
           /\ Flatten(rows) = buttons

C27_Witness ==
  /\ invoked.fn = "keyboardRows"
  /\ returned.done
  /\ Len(invoked.arg) = 5
  /\ Len(returned.value) = 3
  /\ Len(returned.value[3]) = 1

(***************************************************************************)
(* Claims about the callback tokens.                                       *)
(***************************************************************************)
\* The callback tokens on the buttons of the messages started for the
\* update of slot s (the url buttons of the resolution keyboard carry no
\* token).
RenderedTokens(s) ==
  UNION { SeqElems(issued[s][i].kb) :
            i \in { j \in OpIds(s) : /\ issued[s][j].kind = "sendMessage"
                                     /\ issued[s][j].what # "resolutions" } }

\* C28: every callback token on a button that a revision renders is
\* handled by a branch of that revision's switch of its own: it does not
\* get the "Unknown command" reply of the default branch, and it does not
\* fall through the switch.
C28_TokensHandled ==
  \A s \in Slots :
    \A t \in RenderedTokens(s) :
      /\ SwitchOf(t) # Nothing
      /\ \A k \in 1 .. Len(SwitchOf(t).ops) : SwitchOf(t).ops[k].what # "unknown"

(***************************************************************************)
(* Claims about the loading placeholder of showSeasons.                    *)
(***************************************************************************)
LoadingMessages(s) ==
  { i \in OpIds(s) : issued[s][i].kind = "sendMessage"
                       /\ issued[s][i].what = "loading" }

Deletions(s) == { i \in OpIds(s) : issued[s][i].kind = "deleteMessage" }

\* C29: once every operation of an update has settled, a "Loading
\* seasons..." message that was sent has had its deletion requested,
\* whether the seasons query succeeded or failed, and a deletion that
\* failed has not kept the season list from being sent.
C29_LoadingDeleted ==
  \A s \in Slots :
    Quiescent(s) =>
      /\ \A l \in LoadingMessages(s) :
           Outcome(s, l) = "ok" => Deletions(s) # {}
      /\ \A d \in Deletions(s) :
           Outcome(s, d) = "fail"
             => \E m \in OpIds(s) : /\ issued[s][m].kind = "sendMessage"
                                    /\ issued[s][m].what = "seasons"

(***************************************************************************)
(* Claims about the /search command.                                       *)
(***************************************************************************)
StoreQueries(s) == { i \in OpIds(s) : issued[s][i].kind \in {"db", "dbrun"} }

\* C30: a "/search" message with no query is answered with the prompt to
\* enter a search query and starts no store query; a "/search" message
\* with a query starts exactly one store query, the search for that query.
C30_SearchCommand ==
  \A s \in Slots :
    (update[s].type = "message" /\ Field(update[s].data, 1) = "/search")
      => IF Len(update[s].data) = 1
         THEN /\ StoreQueries(s) = {}
              /\ \E i \in OpIds(s) : /\ issued[s][i].kind = "sendMessage"
                                     /\ issued[s][i].what = "prompt"
         ELSE /\ Cardinality(StoreQueries(s)) = 1
              /\ \A q \in StoreQueries(s) :
                   /\ issued[s][q].what = "pages"
                   /\ issued[s][q].tok = update[s].data

====
